---- MODULE Spec2Model ----
(***************************************************************************)
(* YouTubeSummarizer.get_transcript (src/yt_summarizer.py): the transcript *)
(* resolver's fallback chain and its text normalisation, as a state        *)
(* machine.  One action per statement group of the method; the calls made  *)
(* on the transcript service are recorded in `calls`, the stages entered   *)
(* in `trace`.                                                             *)
(***************************************************************************)
EXTENDS Naturals, Sequences, FiniteSets

VARIABLES language, listing, pc, transcript, manual_error, auto_error,
          translation_error, exc, outcome, calls, trace

\* the summarizer object, summarize_video's frame, generate_summary's frame and
\* the requests sent to the text-generation service
VARIABLES model, service, url, video_id, opc, sum_transcript, tier, results, result,
          gpc, complexity, gtext, params, response, next_chunk, full_response,
          gen_outcome, gcalls

\* the state outside get_transcript
svars == <<model, service, url, video_id, opc, sum_transcript, tier, results, result,
           gpc, complexity, gtext, params, response, next_chunk, full_response,
           gen_outcome, gcalls>>

\* get_transcript's frame and the record of its calls
rvars == <<pc, transcript, manual_error, auto_error, translation_error, exc, outcome,
           calls, trace>>

vars == <<language, listing, pc, transcript, manual_error, auto_error,
          translation_error, exc, outcome, calls, trace, svars>>

----------------------------------------------------------------------------
(* Bounds of the explored inputs *)

\* tracks of one video, manual and generated together
MaxTracks == 2

\* entries of one fetched transcript
MaxEntries == 2

----------------------------------------------------------------------------
(* Values *)

\* Python's None, for the record-valued variables
None == [none |-> TRUE]

\* self.language as main() lets it through
Languages == {"eng", "pl"}

\* language codes of the service's tracks
LangCodes == {"en", "pl", "de"}

\* language_map of get_transcript
language_map == [l \in Languages |-> IF l = "eng" THEN "en" ELSE "pl"]

\* a track of the listing: its language code and its is_generated flag
Track == [language_code : LangCodes, is_generated : BOOLEAN]

\* the characters str.strip() removes
Whitespace == {" ", "\n"}

\* texts an entry may carry, as character sequences
TextVals == {<< >>, <<"A">>, <<"B">>, <<"b", " ">>, <<"\n">>}

\* an entry: has_text is FALSE when the record has no 'text' key / the object
\* no text attribute
Entry == [has_text : {TRUE}, text : TextVals] \cup {[has_text |-> FALSE, text |-> << >>]}

\* sequences over S of length at most n
RECURSIVE SeqUpTo(_, _)
SeqUpTo(S, n) ==
  IF n = 0 THEN {<< >>}
  ELSE LET shorter == SeqUpTo(S, n - 1)
       IN shorter \cup {Append(s, x) : s \in {t \in shorter : Len(t) = n - 1}, x \in S}

\* what fetch() returns: a list of dicts or an iterable of snippet objects
Fetched == [shape : {"dict", "object"}, entries : SeqUpTo(Entry, MaxEntries)]

\* a collection of the listing is a dict keyed by language code: no code twice
DistinctCodes(s) == \A i, j \in 1..Len(s) : i # j => s[i].language_code # s[j].language_code

\* _generated_transcripts holds tracks the service generated
Listings ==
  {l \in [manual : SeqUpTo(Track, MaxTracks), generated : SeqUpTo(Track, MaxTracks)] :
     /\ Len(l.manual) + Len(l.generated) <= MaxTracks
     /\ DistinctCodes(l.manual)
     /\ DistinctCodes(l.generated)
     /\ \A i \in 1..Len(l.generated) : l.generated[i].is_generated}

NoTrack == [coll |-> "none", idx |-> 0]

TrackAt(l, ref) == IF ref.coll = "manual" THEN l.manual[ref.idx] ELSE l.generated[ref.idx]

----------------------------------------------------------------------------
(* The transcript service's lookups *)

\* position of the track with the given code in a collection, 0 if absent
IndexOf(coll, code) ==
  IF \E i \in 1..Len(coll) : coll[i].language_code = code
  THEN CHOOSE i \in 1..Len(coll) : coll[i].language_code = code
  ELSE 0

\* TranscriptList.find_transcript: the manually created tracks first, then the
\* generated ones
find_transcript(l, code) ==
  IF IndexOf(l.manual, code) # 0 THEN [coll |-> "manual", idx |-> IndexOf(l.manual, code)]
  ELSE IF IndexOf(l.generated, code) # 0
       THEN [coll |-> "generated", idx |-> IndexOf(l.generated, code)]
       ELSE NoTrack

\* TranscriptList.find_generated_transcript: the generated tracks only
find_generated_transcript(l, code) ==
  IF IndexOf(l.generated, code) # 0
  THEN [coll |-> "generated", idx |-> IndexOf(l.generated, code)]
  ELSE NoTrack

Call(op, stage, ref, arg, ok) ==
  [op |-> op, stage |-> stage, coll |-> ref.coll, idx |-> ref.idx, arg |-> arg, ok |-> ok]

\* the runs of `find(...).fetch()`: the calls made, and the transcript or the
\* error they end with
FindFetchRuns(op, stage, ref, code) ==
  IF ref = NoTrack
  THEN {[calls |-> <<Call(op, stage, NoTrack, code, FALSE)>>,
         value |-> None, error |-> "NoTranscriptFound"]}
  ELSE {[calls |-> <<Call(op, stage, ref, code, TRUE), Call("fetch", stage, ref, "", FALSE)>>,
         value |-> None, error |-> "CouldNotRetrieveTranscript"]}
       \cup {[calls |-> <<Call(op, stage, ref, code, TRUE), Call("fetch", stage, ref, "", TRUE)>>,
              value |-> f, error |-> ""] : f \in Fetched}

----------------------------------------------------------------------------
(* Error messages *)

\* f"Manual transcript not available in {self.language}: {str(e)}"
ManualError(e) == [stage |-> "manual", language |-> language, cause |-> e]

AutoErrorAbsent(e) == None

\* f"Auto-generated transcript not available in {self.language}: {str(e)}"
AutoError(e) == [stage |-> "auto", language |-> language, cause |-> e]

\* f"Could not get or translate available transcript: {str(e)}"
TranslationError(e) == [stage |-> "translate", language |-> language, cause |-> e]

Raise(type, msg) == [kind |-> "raise", type |-> type, msg |-> msg]

Return(text) == [kind |-> "return", text |-> text]

----------------------------------------------------------------------------
(* The state around get_transcript *)

\* no URL: get_transcript or generate_summary called on its own
NoUrl == [hostname |-> "", path |-> << >>, query |-> << >>]

\* {}
EmptyDict == [k \in {} |-> << >>]

\* results = {"english": {}, "polish": {}}
EmptyResults == [english |-> EmptyDict, polish |-> EmptyDict]

\* no generate_summary call in progress
GenerateIdle ==
  /\ gpc = "idle"
  /\ complexity = ""
  /\ gtext = << >>
  /\ params = None
  /\ response = None
  /\ next_chunk = 0
  /\ full_response = << >>
  /\ gen_outcome = None

\* no summarize_video call in progress
SummarizeIdle ==
  /\ url = NoUrl
  /\ video_id = << >>
  /\ opc = "idle"
  /\ sum_transcript = << >>
  /\ tier = 0
  /\ results = EmptyResults
  /\ result = None
  /\ gcalls = << >>

----------------------------------------------------------------------------
\* get_transcript called on a summarizer built with the default model
Init ==
  /\ language \in Languages
  /\ listing \in Listings
  /\ pc = "list"
  /\ transcript = None
  /\ manual_error = None
  /\ auto_error = None
  /\ translation_error = None
  /\ exc = ""
  /\ outcome = None
  /\ calls = << >>
  /\ trace = << >>
  /\ model = "o3-mini"
  /\ service = "echo"
  /\ SummarizeIdle
  /\ GenerateIdle

\* list_transcripts returns the listing
ListTranscriptsOk ==
  /\ pc = "list"
  /\ pc' = "manual"
  /\ calls' = Append(calls, Call("list_transcripts", "list", NoTrack, "", TRUE))
  /\ trace' = Append(trace, "list")
  /\ UNCHANGED <<language, listing, transcript, manual_error, auto_error,
                 translation_error, exc, outcome>>
  /\ UNCHANGED svars

\* a failing list_transcripts whose error is swallowed
ListTranscriptsSwallowed ==
  /\ pc = "list"
  /\ pc' = "manual"
  /\ calls' = Append(calls, Call("list_transcripts", "list", NoTrack, "", FALSE))
  /\ trace' = Append(trace, "list")
  /\ UNCHANGED <<language, listing, transcript, manual_error, auto_error,
                 translation_error, exc, outcome>>
  /\ UNCHANGED svars

\* list_transcripts raises: TranscriptNotFoundError, re-raised by the outer handler
ListTranscriptsFail ==
  /\ pc = "list"
  /\ pc' = "done"
  /\ calls' = Append(calls, Call("list_transcripts", "list", NoTrack, "", FALSE))
  /\ trace' = Append(trace, "list")
  /\ outcome' = Raise("TranscriptNotFoundError", "Could not retrieve transcript list")
  /\ UNCHANGED <<language, listing, transcript, manual_error, auto_error,
                 translation_error, exc>>
  /\ UNCHANGED svars

\* where control goes when a stage's try block ends without an error, were the
\* except handlers to run regardless
AfterSuccessFallsThrough(stage) ==
  IF stage = "manual" THEN "auto" ELSE "translate_manual"

\* a try block that ends without an error skips its except handlers: line 138
AfterSuccess(stage) == "format"

\* transcript = transcript_list.find_transcript([language_map[self.language]]).fetch()
ManualStage ==
  /\ pc = "manual"
  /\ trace' = Append(trace, "manual")
  /\ LET code == language_map[language]
     IN \E r \in FindFetchRuns("find_transcript", "manual",
                               find_transcript(listing, code), code) :
          /\ calls' = calls \o r.calls
          /\ IF r.error = ""
             THEN /\ transcript' = r.value
                  /\ manual_error' = manual_error
                  /\ pc' = AfterSuccess("manual")
             ELSE /\ transcript' = transcript
                  /\ manual_error' = ManualError(r.error)
                  /\ pc' = "auto"
  /\ UNCHANGED <<language, listing, auto_error, translation_error, exc, outcome>>
  /\ UNCHANGED svars

\* transcript = transcript_list.find_generated_transcript([...]).fetch()
AutoStage ==
  /\ pc = "auto"
  /\ trace' = Append(trace, "auto")
  /\ LET code == language_map[language]
     IN \E r \in FindFetchRuns("find_generated_transcript", "auto",
                               find_generated_transcript(listing, code), code) :
          /\ calls' = calls \o r.calls
          /\ IF r.error = ""
             THEN /\ transcript' = r.value
                  /\ auto_error' = auto_error
                  /\ pc' = AfterSuccess("auto")
             ELSE /\ transcript' = transcript
                  /\ auto_error' = AutoError(r.error)
                  /\ pc' = "translate_manual"
  /\ UNCHANGED <<language, listing, manual_error, translation_error, exc, outcome>>
  /\ UNCHANGED svars

\* translate whenever the track's code differs from the target, whatever the language
NeedsTranslateByCode(lang, track) == track.language_code # language_map[lang]

\* the branch of lines 102-110 / 116-124: English always translates to 'en';
\* another language translates only a track of a different code
NeedsTranslate(lang, track) ==
  IF lang = "eng" THEN TRUE ELSE track.language_code # language_map[lang]

\* the runs of `track.translate(target).fetch()` or of `track.fetch()`
TranslateRuns(stage, ref, target, needs) ==
  IF needs
  THEN {[calls |-> <<Call("translate", stage, ref, target, FALSE)>>,
         value |-> None, error |-> "NotTranslatable"]}
       \cup {[calls |-> <<Call("translate", stage, ref, target, TRUE),
                          Call("fetch", stage, ref, target, FALSE)>>,
              value |-> None, error |-> "CouldNotRetrieveTranscript"]}
       \cup {[calls |-> <<Call("translate", stage, ref, target, TRUE),
                          Call("fetch", stage, ref, target, TRUE)>>,
              value |-> f, error |-> ""] : f \in Fetched}
  ELSE {[calls |-> <<Call("fetch", stage, ref, "", FALSE)>>,
         value |-> None, error |-> "CouldNotRetrieveTranscript"]}
       \cup {[calls |-> <<Call("fetch", stage, ref, "", TRUE)>>,
              value |-> f, error |-> ""] : f \in Fetched}

\* the flag test left out: the first track, whatever its flag
FirstTrack(coll) == IF Len(coll) = 0 THEN 0 ELSE 1

\* the flag test inverted: the first track whose is_generated flag is not set
FirstNotGenerated(coll) ==
  IF \E i \in 1..Len(coll) : ~coll[i].is_generated
  THEN CHOOSE i \in 1..Len(coll) :
         ~coll[i].is_generated /\ \A j \in 1..(i - 1) : coll[j].is_generated
  ELSE 0

\* the first track of the collection whose is_generated flag is set, 0 if none
FirstGenerated(coll) ==
  IF \E i \in 1..Len(coll) : coll[i].is_generated
  THEN CHOOSE i \in 1..Len(coll) :
         coll[i].is_generated /\ \A j \in 1..(i - 1) : ~coll[j].is_generated
  ELSE 0

\* the manual loop left without a transcript goes straight to the final check
AfterManualLoopSkipsGenerated(t) == IF t = None THEN "raise_none" ELSE "format"

\* line 113: `if transcript is None` enters the loop over the generated tracks
AfterManualLoop(t) == IF t = None THEN "translate_generated" ELSE "format"

\* line 127: `if transcript is None` raises
AfterGeneratedLoop(t) == IF t = None THEN "raise_none" ELSE "format"

\* for transcript_data in transcript_list._manually_created_transcripts.values()
TranslateManualLoop ==
  /\ pc = "translate_manual"
  /\ trace' = Append(trace, "translate_manual")
  /\ LET i == FirstGenerated(listing.manual)
         ref == [coll |-> "manual", idx |-> i]
     IN IF i = 0
        THEN /\ pc' = AfterManualLoop(transcript)
             /\ UNCHANGED <<transcript, exc, calls>>
        ELSE \E r \in TranslateRuns("translate", ref, language_map[language],
                                    NeedsTranslate(language, listing.manual[i])) :
               /\ calls' = calls \o r.calls
               /\ IF r.error = ""
                  THEN /\ transcript' = r.value
                       /\ exc' = exc
                       /\ pc' = AfterManualLoop(r.value)
                  ELSE /\ transcript' = transcript
                       /\ exc' = r.error
                       /\ pc' = "translate_except"
  /\ UNCHANGED <<language, listing, manual_error, auto_error, translation_error, outcome>>
  /\ UNCHANGED svars

\* a loop without its break: every track is acted on and the last one stays
LastOf(coll) == Len(coll)

\* the loop of lines 115-125 breaks at the end of its first iteration
FirstOf(coll) == IF Len(coll) = 0 THEN 0 ELSE 1

\* for transcript_data in transcript_list._generated_transcripts.values()
TranslateGeneratedLoop ==
  /\ pc = "translate_generated"
  /\ trace' = Append(trace, "translate_generated")
  /\ LET i == FirstOf(listing.generated)
         ref == [coll |-> "generated", idx |-> i]
     IN IF i = 0
        THEN /\ pc' = AfterGeneratedLoop(transcript)
             /\ UNCHANGED <<transcript, exc, calls>>
        ELSE \E r \in TranslateRuns("translate", ref, language_map[language],
                                    NeedsTranslate(language, listing.generated[i])) :
               /\ calls' = calls \o r.calls
               /\ IF r.error = ""
                  THEN /\ transcript' = r.value
                       /\ exc' = exc
                       /\ pc' = AfterGeneratedLoop(r.value)
                  ELSE /\ transcript' = transcript
                       /\ exc' = r.error
                       /\ pc' = "translate_except"
  /\ UNCHANGED <<language, listing, manual_error, auto_error, translation_error, outcome>>
  /\ UNCHANGED svars

\* raise NoTranscriptAvailableError("No transcripts available for this video")
RaiseNoTranscripts ==
  /\ pc = "raise_none"
  /\ exc' = "No transcripts available for this video"
  /\ pc' = "translate_except"
  /\ UNCHANGED <<language, listing, transcript, manual_error, auto_error,
                 translation_error, outcome, calls, trace>>
  /\ UNCHANGED svars

\* the message of the final error: the three recorded stage messages
AllFailedMessage(m, a, t) == <<m, a, t>>

\* except Exception as e: record the message, raise the aggregated error
TranslateExcept ==
  /\ pc = "translate_except"
  /\ translation_error' = TranslationError(exc)
  /\ outcome' = Raise("NoTranscriptAvailableError",
                      AllFailedMessage(manual_error, auto_error, translation_error'))
  /\ pc' = "done"
  /\ UNCHANGED <<language, listing, transcript, manual_error, auto_error, exc,
                 calls, trace>>
  /\ UNCHANGED svars

----------------------------------------------------------------------------
(* Formatting *)

\* entry.get('text', '') for a dict, getattr(entry, 'text', '') for an object
EntryText(shape, entry) ==
  IF shape = "dict"
  THEN (IF entry.has_text THEN entry.text ELSE << >>)
  ELSE (IF entry.has_text THEN entry.text ELSE << >>)

RECURSIVE LStrip(_)
LStrip(s) == IF s # << >> /\ Head(s) \in Whitespace THEN LStrip(Tail(s)) ELSE s

RECURSIVE RStrip(_)
RStrip(s) ==
  IF s # << >> /\ s[Len(s)] \in Whitespace THEN RStrip(SubSeq(s, 1, Len(s) - 1)) ELSE s

StripNothing(s) == s

\* str.strip()
Strip(s) == RStrip(LStrip(s))

\* the loop of lines 143-152: formatted_transcript += text + " " for a truthy text
RECURSIVE FormatLoop(_, _, _)
FormatLoop(shape, entries, formatted) ==
  IF entries = << >> THEN formatted
  ELSE LET text == EntryText(shape, Head(entries))
       IN FormatLoop(shape, Tail(entries),
                     IF text # << >> THEN formatted \o text \o <<" ">> ELSE formatted)

\* a formatter that returns whatever text it built
FormatOutcomeUnchecked(t) ==
  IF t = None
  THEN Raise("TranscriptProcessingError",
             "No transcript was retrieved despite no errors being raised")
  ELSE Return(Strip(FormatLoop(t.shape, t.entries, << >>)))

\* lines 138-158
FormatOutcome(t) ==
  IF t = None
  THEN Raise("TranscriptProcessingError",
             "No transcript was retrieved despite no errors being raised")
  ELSE LET formatted_transcript == Strip(FormatLoop(t.shape, t.entries, << >>))
       IN IF formatted_transcript = << >>
          THEN Raise("TranscriptProcessingError",
                     "Transcript was retrieved but contained no text")
          ELSE Return(formatted_transcript)

Format ==
  /\ pc = "format"
  /\ outcome' = FormatOutcome(transcript)
  /\ pc' = "done"
  /\ UNCHANGED <<language, listing, transcript, manual_error, auto_error,
                 translation_error, exc, calls, trace>>
  /\ UNCHANGED svars

Next ==
  \/ ListTranscriptsOk
  \/ ListTranscriptsFail
  \/ ManualStage
  \/ AutoStage
  \/ TranslateManualLoop
  \/ TranslateGeneratedLoop
  \/ RaiseNoTranscripts
  \/ TranslateExcept
  \/ Format

Spec == Init /\ [][Next]_vars

----------------------------------------------------------------------------
(* generate_summary *)

\* chunks of one streamed response
MaxChunks == 2

\* the complexity tiers, in the order summarize_video walks them
Tiers == <<"simple", "moderate", "complex">>

\* self.model: the constructor's default and other model identifiers
Models == {"o3-mini", "gpt-4o", "o1"}

\* the prompt table (the Polish templates without their diacritics)
prompts ==
  [simple |->
     [eng |-> "Provide a brief, simple overview of the main points in 2-3 sentences:",
      pl |-> "Przedstaw krotkie podsumowanie glownych punktow w 2-3 zdaniach:"],
   moderate |->
     [eng |-> "Create a detailed summary that covers the key points and important details in 4-6 sentences:",
      pl |-> "Stworz szczegolowe podsumowanie obejmujace kluczowe punkty i wazne detale w 4-6 zdaniach:"],
   complex |->
     [eng |-> "Generate a comprehensive analysis including main themes, key arguments, and important details. Include any relevant context and implications:",
      pl |-> "Stworz kompleksowa analize zawierajaca glowne tematy, kluczowe argumenty i wazne szczegoly. Uwzglednij odpowiedni kontekst i implikacje:"]]

\* the system message
SystemContent(lang) ==
  IF lang = "pl"
  THEN "You are a helpful assistant that summarizes content. Respond in Polish."
  ELSE "You are a helpful assistant that summarizes content. Respond in English."

\* f"{prompts[complexity][self.language]}\n\n{text}": the template, two newlines
\* and the text, the template standing as one non-whitespace character
UserContent(c, lang, text) == <<prompts[c][lang], "\n", "\n">> \o text

Messages(c, lang, text) ==
  <<[role |-> "system", content |-> <<SystemContent(lang)>>],
    [role |-> "user", content |-> UserContent(c, lang, text)]>>

\* 4000 if complexity == "complex" else 1000
TokenBudget(c) == IF c = "complex" THEN 4000 ELSE 1000

\* the request built as if every model took the sampling parameters
ParamsAlwaysSampling(m, lang, c, text) ==
  [model |-> m, messages |-> Messages(c, lang, text), stream |-> TRUE,
   temperature |-> <<7, 10>>, max_tokens |-> TokenBudget(c)]

\* params of lines 185-204; the temperature 0.7 as the ratio 7/10
Params(m, lang, c, text) ==
  IF m = "o3-mini"
  THEN [model |-> m, messages |-> Messages(c, lang, text), stream |-> TRUE,
        max_completion_tokens |-> TokenBudget(c)]
  ELSE [model |-> m, messages |-> Messages(c, lang, text), stream |-> TRUE,
        temperature |-> <<7, 10>>, max_tokens |-> TokenBudget(c)]

\* the content of a streamed fragment
ChunkTexts == {<<"a">>, <<"b">>, <<" ">>}

\* chunk.choices[0].delta: its content, or None
Fragment ==
  [is_null : {FALSE}, content : ChunkTexts] \cup {[is_null |-> TRUE, content |-> << >>]}

\* the service answers the request with an error, or with a stream of chunks
\* that ends or breaks off with an error
CreateFails == [error |-> "APIError", chunks |-> << >>, ending |-> "error"]

Streamed(chunks, ending) == [error |-> "", chunks |-> chunks, ending |-> ending]

\* a stub that streams the prompt it was sent back
EchoResponse(content) == Streamed(<<[is_null |-> FALSE, content |-> content]>>, "end")

\* what the plugged text-generation service may answer to a request
ServiceResponses(svc, content) ==
  CASE svc = "echo" -> {EchoResponse(content)}
    [] svc = "unreliable" ->
         {EchoResponse(content), CreateFails,
          Streamed(<<[is_null |-> FALSE, content |-> content]>>, "error")}
    [] OTHER ->
         {CreateFails}
           \cup {Streamed(c, e) : c \in SeqUpTo(Fragment, MaxChunks), e \in {"end", "error"}}

\* an error that leaves generate_summary as it was raised
GenerateErrorUnwrapped(e) == Raise(e, << >>)

\* raise Exception(f"Error generating summary: {str(e)}")
GenerateError(e) ==
  Raise("Exception", [prefix |-> "Error generating summary", cause |-> e])

\* full_response = content
AccumulateOverwrite(full, chunk) == IF chunk.is_null THEN full ELSE chunk.content

\* if chunk.choices[0].delta.content is not None: full_response += content
Accumulate(full, chunk) == IF chunk.is_null THEN full ELSE full \o chunk.content

\* lines 183-212: the request is built and sent once
CreateCompletion ==
  /\ gpc = "create"
  /\ params' = Params(model, language, complexity, gtext)
  /\ \E r \in ServiceResponses(service, UserContent(complexity, language, gtext)) :
       /\ gcalls' = Append(gcalls, [complexity |-> complexity, params |-> params',
                                    ok |-> r.error = ""])
       /\ response' = r
       /\ IF r.error = ""
          THEN /\ gpc' = "stream"
               /\ next_chunk' = 1
               /\ gen_outcome' = gen_outcome
          ELSE /\ gpc' = "done"
               /\ next_chunk' = next_chunk
               /\ gen_outcome' = GenerateError(r.error)
  /\ full_response' = << >>
  /\ UNCHANGED <<language, listing, rvars, model, service, url, video_id, opc,
                 sum_transcript, tier, results, result, complexity, gtext>>

\* lines 215-219: one chunk of the stream
StreamChunk ==
  /\ gpc = "stream"
  /\ next_chunk <= Len(response.chunks)
  /\ full_response' = Accumulate(full_response, response.chunks[next_chunk])
  /\ next_chunk' = next_chunk + 1
  /\ UNCHANGED <<language, listing, rvars, model, service, url, video_id, opc,
                 sum_transcript, tier, results, result, gpc, complexity, gtext,
                 params, response, gen_outcome, gcalls>>

\* lines 221-222: the stream ended
StreamEnd ==
  /\ gpc = "stream"
  /\ next_chunk > Len(response.chunks)
  /\ response.ending = "end"
  /\ gen_outcome' = Return(Strip(full_response))
  /\ gpc' = "done"
  /\ UNCHANGED <<language, listing, rvars, model, service, url, video_id, opc,
                 sum_transcript, tier, results, result, complexity, gtext, params,
                 response, next_chunk, full_response, gcalls>>

\* lines 215, 223-224: the iteration raised
StreamRaises ==
  /\ gpc = "stream"
  /\ next_chunk > Len(response.chunks)
  /\ response.ending = "error"
  /\ gen_outcome' = GenerateError("StreamError")
  /\ gpc' = "done"
  /\ UNCHANGED <<language, listing, rvars, model, service, url, video_id, opc,
                 sum_transcript, tier, results, result, complexity, gtext, params,
                 response, next_chunk, full_response, gcalls>>

\* no get_transcript call in progress
ResolverIdle ==
  /\ pc = "idle"
  /\ transcript = None
  /\ manual_error = None
  /\ auto_error = None
  /\ translation_error = None
  /\ exc = ""
  /\ outcome = None
  /\ calls = << >>
  /\ trace = << >>

NoListing == [manual |-> << >>, generated |-> << >>]

\* the texts generate_summary is called with
GenTexts == {<< >>, <<"A", " ", "B">>}

\* generate_summary called on its own, for any model, language and tier
InitGen ==
  /\ language \in Languages
  /\ listing = NoListing
  /\ ResolverIdle
  /\ model \in Models
  /\ service \in {"echo", "arbitrary"}
  /\ SummarizeIdle
  /\ gpc = "create"
  /\ complexity \in {Tiers[k] : k \in 1..Len(Tiers)}
  /\ gtext \in GenTexts
  /\ params = None
  /\ response = None
  /\ next_chunk = 0
  /\ full_response = << >>
  /\ gen_outcome = None

NextGen == CreateCompletion \/ StreamChunk \/ StreamEnd \/ StreamRaises

SpecGen == InitGen /\ [][NextGen]_vars

----------------------------------------------------------------------------
(* extract_video_id *)

\* query parameters of one URL
MaxParams == 2

\* parsed_url.hostname; "" stands for None
Hosts == {"www.youtube.com", "youtube.com", "youtu.be", "m.youtube.com", "example.com", ""}

WatchPath == <<"/", "w", "a", "t", "c", "h">>

\* parsed_url.path
Paths == {<< >>, <<"/">>, WatchPath, <<"/", "x", "y">>, WatchPath \o <<"/">>}

\* a key=value pair of parsed_url.query
QueryParam == [key : {"v", "t"}, value : {<< >>, <<"x", "y">>}]

\* what urlparse makes of a URL
Urls == [hostname : Hosts, path : Paths, query : SeqUpTo(QueryParam, MaxParams)]

\* parse_qs(query)[key]: the non-blank values of the key, in order; no value
\* means the key is not in the dict
RECURSIVE parse_qs(_, _)
parse_qs(query, key) ==
  IF query = << >> THEN << >>
  ELSE IF Head(query).key = key /\ Head(query).value # << >>
       THEN <<Head(query).value>> \o parse_qs(Tail(query), key)
       ELSE parse_qs(Tail(query), key)

\* lines 58-66
extract_video_id(u) ==
  IF u.hostname \in {"www.youtube.com", "youtube.com"}
  THEN IF u.path = WatchPath
       THEN IF parse_qs(u.query, "v") = << >>
            THEN Raise("KeyError", "v")
            ELSE Return(parse_qs(u.query, "v")[1])
       ELSE Raise("ValueError", "Invalid YouTube URL")
  ELSE IF u.hostname = "youtu.be"
       THEN Return(SubSeq(u.path, 2, Len(u.path)))
       ELSE Raise("ValueError", "Invalid YouTube URL")

----------------------------------------------------------------------------
(* summarize_video *)

\* video_id = self.extract_video_id(url), then get_transcript is entered
ExtractVideoId ==
  /\ opc = "extract"
  /\ LET r == extract_video_id(url)
     IN IF r.kind = "return"
        THEN /\ video_id' = r.text
             /\ opc' = "get_transcript"
             /\ pc' = "list"
             /\ result' = result
        ELSE /\ video_id' = video_id
             /\ opc' = "finished"
             /\ pc' = pc
             /\ result' = r
  /\ UNCHANGED <<language, listing, transcript, manual_error, auto_error,
                 translation_error, exc, outcome, calls, trace, model, service, url,
                 sum_transcript, tier, results, gpc, complexity, gtext, params,
                 response, next_chunk, full_response, gen_outcome, gcalls>>

\* transcript = self.get_transcript(video_id) returned: its frame is gone, the
\* results mapping is created and the loop over the tiers begins
GetTranscriptReturns ==
  /\ opc = "get_transcript"
  /\ pc = "done"
  /\ outcome.kind = "return"
  /\ sum_transcript' = outcome.text
  /\ results' = EmptyResults
  /\ tier' = 1
  /\ opc' = "generate"
  /\ pc' = "idle"
  /\ transcript' = None
  /\ manual_error' = None
  /\ auto_error' = None
  /\ translation_error' = None
  /\ exc' = ""
  /\ outcome' = None
  /\ calls' = << >>
  /\ trace' = << >>
  /\ UNCHANGED <<language, listing, model, service, url, video_id, result, gpc,
                 complexity, gtext, params, response, next_chunk, full_response,
                 gen_outcome, gcalls>>

\* get_transcript raised: summarize_video has no handler
GetTranscriptRaises ==
  /\ opc = "get_transcript"
  /\ pc = "done"
  /\ outcome.kind = "raise"
  /\ result' = outcome
  /\ opc' = "finished"
  /\ UNCHANGED <<language, listing, rvars, model, service, url, video_id,
                 sum_transcript, tier, results, gpc, complexity, gtext, params,
                 response, next_chunk, full_response, gen_outcome, gcalls>>

\* the language test of lines 253-256 inverted
ResultsKeyInverted(lang) == IF lang = "eng" THEN "polish" ELSE "english"

\* lines 253-256
ResultsKey(lang) == IF lang = "eng" THEN "english" ELSE "polish"

\* d[key] = value
DictSet(d, key, value) ==
  [k \in DOMAIN d \cup {key} |-> IF k = key THEN value ELSE d[k]]

\* results[...][complexity] = summary
Store(res, lang, c, summary) ==
  [res EXCEPT ![ResultsKey(lang)] = DictSet(res[ResultsKey(lang)], c, summary)]

\* the next iteration of `for complexity in [...]` calls generate_summary
StartTier ==
  /\ opc = "generate"
  /\ gpc = "idle"
  /\ tier <= Len(Tiers)
  /\ complexity' = Tiers[tier]
  /\ gtext' = sum_transcript
  /\ gpc' = "create"
  /\ UNCHANGED <<language, listing, rvars, model, service, url, video_id, opc,
                 sum_transcript, tier, results, result, params, response,
                 next_chunk, full_response, gen_outcome, gcalls>>

\* generate_summary returned: the summary is stored, its frame is gone
TierReturns ==
  /\ opc = "generate"
  /\ gpc = "done"
  /\ gen_outcome.kind = "return"
  /\ results' = Store(results, language, complexity, gen_outcome.text)
  /\ tier' = tier + 1
  /\ gpc' = "idle"
  /\ complexity' = ""
  /\ gtext' = << >>
  /\ params' = None
  /\ response' = None
  /\ next_chunk' = 0
  /\ full_response' = << >>
  /\ gen_outcome' = None
  /\ UNCHANGED <<language, listing, rvars, model, service, url, video_id, opc,
                 sum_transcript, result, gcalls>>

\* a failed tier that is skipped: the loop goes on with the next one
TierRaisesSkipped ==
  /\ opc = "generate"
  /\ gpc = "done"
  /\ gen_outcome.kind = "raise"
  /\ tier' = tier + 1
  /\ gpc' = "idle"
  /\ complexity' = ""
  /\ gtext' = << >>
  /\ params' = None
  /\ response' = None
  /\ next_chunk' = 0
  /\ full_response' = << >>
  /\ gen_outcome' = None
  /\ UNCHANGED <<language, listing, rvars, model, service, url, video_id, opc,
                 sum_transcript, results, result, gcalls>>

\* generate_summary raised: summarize_video has no handler
TierRaises ==
  /\ opc = "generate"
  /\ gpc = "done"
  /\ gen_outcome.kind = "raise"
  /\ result' = gen_outcome
  /\ opc' = "finished"
  /\ UNCHANGED <<language, listing, rvars, model, service, url, video_id,
                 sum_transcript, tier, results, gpc, complexity, gtext, params,
                 response, next_chunk, full_response, gen_outcome, gcalls>>

\* return results
ReturnResults ==
  /\ opc = "generate"
  /\ gpc = "idle"
  /\ tier > Len(Tiers)
  /\ result' = [kind |-> "return", value |-> results]
  /\ opc' = "finished"
  /\ UNCHANGED <<language, listing, rvars, model, service, url, video_id,
                 sum_transcript, tier, results, gpc, complexity, gtext, params,
                 response, next_chunk, full_response, gen_outcome, gcalls>>

WatchUrl == [hostname |-> "www.youtube.com", path |-> WatchPath,
             query |-> <<[key |-> "v", value |-> <<"x", "y">>]>>]

\* the URLs summarize_video is walked through with
SumUrls ==
  {WatchUrl,
   [hostname |-> "youtu.be", path |-> <<"/", "x", "y">>, query |-> << >>],
   [hostname |-> "youtu.be", path |-> <<"/">>, query |-> << >>],
   [hostname |-> "youtube.com", path |-> WatchPath, query |-> << >>],
   [hostname |-> "example.com", path |-> WatchPath,
    query |-> <<[key |-> "v", value |-> <<"x", "y">>]>>]}

OneManualEnglish ==
  [manual |-> <<[language_code |-> "en", is_generated |-> FALSE]>>, generated |-> << >>]

\* the videos summarize_video is walked through with
SumListings ==
  {OneManualEnglish,
   NoListing,
   [manual |-> << >>, generated |-> <<[language_code |-> "de", is_generated |-> TRUE]>>]}

\* summarize_video(url) called on a summarizer
InitSum ==
  /\ language \in Languages
  /\ listing \in SumListings
  /\ ResolverIdle
  /\ model \in {"o3-mini", "gpt-4o"}
  /\ service \in {"echo", "unreliable"}
  /\ url \in SumUrls
  /\ video_id = << >>
  /\ opc = "extract"
  /\ sum_transcript = << >>
  /\ tier = 0
  /\ results = EmptyResults
  /\ result = None
  /\ gcalls = << >>
  /\ GenerateIdle

NextSum ==
  \/ ExtractVideoId
  \/ ListTranscriptsOk
  \/ ListTranscriptsFail
  \/ ManualStage
  \/ AutoStage
  \/ TranslateManualLoop
  \/ TranslateGeneratedLoop
  \/ RaiseNoTranscripts
  \/ TranslateExcept
  \/ Format
  \/ GetTranscriptReturns
  \/ GetTranscriptRaises
  \/ StartTier
  \/ CreateCompletion
  \/ StreamChunk
  \/ StreamEnd
  \/ StreamRaises
  \/ TierReturns
  \/ TierRaises
  \/ ReturnResults

SpecSum == InitSum /\ [][NextSum]_vars

\* extract_video_id applied to any URL
InitUrl ==
  /\ language = "eng"
  /\ listing = NoListing
  /\ ResolverIdle
  /\ model = "o3-mini"
  /\ service = "echo"
  /\ url \in Urls
  /\ video_id = << >>
  /\ opc = "extract"
  /\ sum_transcript = << >>
  /\ tier = 0
  /\ results = EmptyResults
  /\ result = None
  /\ gcalls = << >>
  /\ GenerateIdle

NextUrl == ExtractVideoId

SpecUrl == InitUrl /\ [][NextUrl]_vars

----------------------------------------------------------------------------
(* Properties of the resolver *)

Done == pc = "done"

Raised(type) == outcome # None /\ outcome.kind = "raise" /\ outcome.type = type

Returned == outcome # None /\ outcome.kind = "return"

ListFailed == calls # << >> /\ calls[1].op = "list_transcripts" /\ ~calls[1].ok

\* the calls made in the translate-fallback stage
TranslateCalls == {i \in 1..Len(calls) : calls[i].stage = "translate"}

\* the manually-created tracks flagged machine-generated, by position
FlaggedManual == {k \in 1..Len(listing.manual) : listing.manual[k].is_generated}

FirstFlagged(k) == k \in FlaggedManual /\ \A j \in FlaggedManual : k <= j

InTrace(stage) == \E i \in 1..Len(trace) : trace[i] = stage

StageOrder == <<"list", "manual", "auto", "translate_manual", "translate_generated">>

StageRank(stage) ==
  CASE stage = "list" -> 0
    [] stage = "manual" -> 1
    [] stage = "auto" -> 2
    [] OTHER -> 3

\* C1: when list_transcripts fails the resolver fails with
\* TranscriptNotFoundError and makes no other call: the listing call is the only
\* call of the invocation and no stage after the list stage is entered.
C1_ListFailureStops ==
  ListFailed =>
    /\ Len(calls) = 1
    /\ trace = <<"list">>
    /\ Done
    /\ Raised("TranscriptNotFoundError")

\* a failed listing of a video that does have tracks
C1_Witness ==
  /\ Done
  /\ ListFailed
  /\ Len(listing.manual) > 0
  /\ Len(listing.generated) > 0

\* C2: the stages run in the order manual, auto-generated, translate-fallback;
\* the auto-generated stage runs only after the manual stage raised, the
\* translate-fallback stage only after the auto-generated stage raised, and a
\* fetch that returns normally (even an empty list) is the last call made.
C2_StrictStageOrder ==
  /\ trace = SubSeq(StageOrder, 1, Len(trace))
  /\ \A i, j \in 1..Len(calls) :
       i < j => StageRank(calls[i].stage) <= StageRank(calls[j].stage)
  /\ InTrace("auto") =>
       /\ manual_error # None
       /\ \E i \in 1..Len(calls) :
            /\ calls[i].stage = "manual"
            /\ ~calls[i].ok
            /\ \A j \in (i + 1)..Len(calls) : calls[j].stage # "manual"
  /\ InTrace("translate_manual") =>
       /\ auto_error # None
       /\ \E i \in 1..Len(calls) :
            /\ calls[i].stage = "auto"
            /\ ~calls[i].ok
            /\ \A j \in (i + 1)..Len(calls) : calls[j].stage # "auto"
  /\ \A i \in 1..Len(calls) :
       (calls[i].op = "fetch" /\ calls[i].ok) =>
         /\ i = Len(calls)
         /\ pc \in {"format", "done"}
         /\ StageRank(trace[Len(trace)]) = StageRank(calls[i].stage)
         /\ calls[i].coll = "manual" => ~InTrace("translate_generated")

\* the auto-generated stage ran after the manual stage raised, its fetch
\* returned an empty list, and no later stage followed
C2_Witness ==
  /\ Done
  /\ trace = <<"list", "manual", "auto">>
  /\ transcript # None
  /\ transcript.entries = << >>
  /\ calls[Len(calls)].op = "fetch"
  /\ calls[Len(calls)].ok

\* C3 as stated: the resolver never fails with NoTranscriptAvailableError
\* without having gone on to the auto-generated tracks.
C3_AsStated ==
  (Done /\ Raised("NoTranscriptAvailableError")) => InTrace("translate_generated")

\* C3: once the translate-fallback stage is over, the auto-generated tracks
\* were gone on to exactly when no manually-created track is flagged
\* machine-generated; an error raised by translate or fetch on the flagged
\* manual track ends the resolver with NoTranscriptAvailableError at once.
C3_GeneratedLoopIffNoFlaggedManual ==
  /\ (InTrace("translate_manual") /\ pc # "translate_generated") =>
       (InTrace("translate_generated") <=> FlaggedManual = {})
  /\ (Done /\ \E i \in TranslateCalls : calls[i].coll = "manual" /\ ~calls[i].ok) =>
       (Raised("NoTranscriptAvailableError") /\ ~InTrace("translate_generated"))

\* manual tracks exist but none qualifies, the generated tracks were tried and
\* the resolver failed
C3_Witness ==
  /\ Done
  /\ Raised("NoTranscriptAvailableError")
  /\ Len(listing.manual) > 0
  /\ InTrace("translate_generated")
  /\ \E i \in TranslateCalls : calls[i].coll = "generated"

\* C4 as stated: a generated track whose translate or fetch raised is followed
\* by an attempt on the next track of the generated collection.
C4_AsStated ==
  Done =>
    \A i \in TranslateCalls :
      (calls[i].coll = "generated" /\ ~calls[i].ok
         /\ calls[i].idx < Len(listing.generated)) =>
        \E j \in TranslateCalls :
          j > i /\ calls[j].coll = "generated" /\ calls[j].idx = calls[i].idx + 1

\* C4: the translate-fallback stage acts on at most one track, the first
\* flagged manual track or else the first generated track in iteration order,
\* and then stops: when its translate and fetch return, that result is the
\* stage's result; when either raises, no later track is tried and the resolver
\* fails with NoTranscriptAvailableError.
C4_FirstTrackOnly ==
  /\ \A i, j \in TranslateCalls :
       calls[i].coll = calls[j].coll /\ calls[i].idx = calls[j].idx
  /\ \A i \in TranslateCalls :
       /\ calls[i].coll = "manual" => FirstFlagged(calls[i].idx)
       /\ calls[i].coll = "generated" =>
            (calls[i].idx = 1 /\ FlaggedManual = {})
       /\ ~calls[i].ok =>
            /\ i = Len(calls)
            /\ transcript = None
            /\ pc \in {"translate_except", "done"}
            /\ Done => Raised("NoTranscriptAvailableError")
       /\ (calls[i].op = "fetch" /\ calls[i].ok) =>
            /\ transcript # None
            /\ Done => outcome = FormatOutcome(transcript)

\* two generated tracks, the first one's translate or fetch raised
C4_Witness ==
  /\ Done
  /\ Len(listing.generated) >= 2
  /\ \E i \in TranslateCalls : calls[i].coll = "generated" /\ ~calls[i].ok

\* the first call the translate-fallback stage makes on the track it acts on
FirstTranslateCall(i) == i \in TranslateCalls /\ (i - 1) \notin TranslateCalls

ActedTrack(i) == TrackAt(listing, [coll |-> calls[i].coll, idx |-> calls[i].idx])

\* C5 as stated: for both languages, translate is called on the track acted on
\* if and only if its language code differs from the target code.
C5_AsStated ==
  \A i \in 1..Len(calls) :
    FirstTranslateCall(i) =>
      (calls[i].op = "translate"
         <=> ActedTrack(i).language_code # language_map[language])

\* C5: for pl, translate(pl) is called on the track acted on if and only if its
\* language code differs from pl, and a pl track is fetched directly; for eng,
\* translate(en) is called on every track acted on, an en track included.
C5_TranslateUnlessPolishMatches ==
  \A i \in 1..Len(calls) :
    /\ FirstTranslateCall(i) =>
         /\ language = "pl" =>
              (calls[i].op = "translate" <=> ActedTrack(i).language_code # "pl")
         /\ language = "eng" => calls[i].op = "translate"
         /\ calls[i].op # "translate" => (calls[i].op = "fetch" /\ calls[i].arg = "")
    /\ (i \in TranslateCalls /\ calls[i].op = "translate") =>
         calls[i].arg = language_map[language]
    /\ (i \in TranslateCalls /\ calls[i].op = "fetch" /\ ~FirstTranslateCall(i)) =>
         (calls[i - 1].op = "translate" /\ calls[i - 1].ok
            /\ calls[i].arg = language_map[language])

\* English is desired and translate('en') was called on a track whose code is en
C5_Witness ==
  /\ language = "eng"
  /\ \E i \in 1..Len(calls) :
       /\ FirstTranslateCall(i)
       /\ calls[i].op = "translate"
       /\ ActedTrack(i).language_code = "en"

\* C6: a NoTranscriptAvailableError carries the three stage messages: the
\* recorded manual-stage message, the recorded auto-generated-stage message and
\* the translate-fallback message, none of them None, also when the
\* translate-fallback stage found no track to act on.
C6_AllThreeReasons ==
  Raised("NoTranscriptAvailableError") =>
    /\ outcome.msg = <<manual_error, auto_error, translation_error>>
    /\ \A k \in 1..3 : outcome.msg[k] # None
    /\ outcome.msg[1].stage = "manual" /\ outcome.msg[1].cause # ""
    /\ outcome.msg[2].stage = "auto" /\ outcome.msg[2].cause # ""
    /\ outcome.msg[3].stage = "translate" /\ outcome.msg[3].cause # ""
    /\ TranslateCalls = {} =>
         outcome.msg[3].cause = "No transcripts available for this video"

\* the failure of a video whose translate-fallback stage had no track to act on
C6_Witness ==
  /\ Done
  /\ Raised("NoTranscriptAvailableError")
  /\ TranslateCalls = {}
  /\ Len(listing.manual) > 0

----------------------------------------------------------------------------
(* Properties of the returned text *)

\* the text fields of the entries that have a non-empty text, in order
RECURSIVE TextFields(_)
TextFields(entries) ==
  IF entries = << >> THEN << >>
  ELSE IF Head(entries).has_text /\ Head(entries).text # << >>
       THEN <<Head(entries).text>> \o TextFields(Tail(entries))
       ELSE TextFields(Tail(entries))

\* the texts joined by one space between neighbours
RECURSIVE JoinedBySpace(_)
JoinedBySpace(texts) ==
  IF texts = << >> THEN << >>
  ELSE IF Len(texts) = 1 THEN texts[1]
       ELSE texts[1] \o <<" ">> \o JoinedBySpace(Tail(texts))

Ink(s) == {i \in 1..Len(s) : s[i] \notin Whitespace}

\* s without its leading and trailing whitespace
Trimmed(s) ==
  IF Ink(s) = {} THEN << >>
  ELSE SubSeq(s, CHOOSE i \in Ink(s) : \A j \in Ink(s) : i <= j,
                 CHOOSE i \in Ink(s) : \A j \in Ink(s) : i >= j)

\* the normalized text of a fetched transcript
Normalized(t) == Trimmed(JoinedBySpace(TextFields(t.entries)))

AllFetchesOk == \A i \in 1..Len(calls) : calls[i].op = "fetch" => calls[i].ok

OnlyGeneratedEnglish ==
  /\ language = "eng"
  /\ listing = [manual |-> << >>,
                generated |-> <<[language_code |-> "en", is_generated |-> TRUE]>>]

\* C7: with an auto-generated English track as the only track, English
\* desired and the service answering every fetch, the manual-language stage
\* raises, the auto-generated stage succeeds, the translate-fallback stage is
\* not entered and the normalized text of the track's entries is returned.
C7_AsStated ==
  (OnlyGeneratedEnglish /\ Done /\ ~ListFailed /\ AllFetchesOk /\ Returned) =>
    /\ manual_error # None
    /\ trace = <<"list", "manual", "auto">>
    /\ calls[Len(calls)].stage = "auto"
    /\ outcome.text = Normalized(transcript)

NoTrackInDesiredLanguage ==
  /\ IndexOf(listing.manual, language_map[language]) = 0
  /\ IndexOf(listing.generated, language_map[language]) = 0

TranslateCallsOk == \A i \in TranslateCalls : calls[i].ok

FlaggedManualInThirdLanguage ==
  /\ NoTrackInDesiredLanguage
  /\ FlaggedManual # {}
  /\ ~ListFailed
  /\ TranslateCallsOk

\* C8 as stated: with no track in the desired language and a flagged manual
\* track in a third language whose translate and fetch succeed, the resolver
\* returns a text.
C8_AsStated ==
  (FlaggedManualInThirdLanguage /\ Done) =>
    (Returned /\ trace = <<"list", "manual", "auto", "translate_manual">>)

\* C8: with no track in the desired language and a flagged manual track in a
\* third language whose translate and fetch succeed, the resolver ends in the
\* translate-fallback stage's manual loop having called translate(target) and
\* fetch on the first flagged manual track; it returns the normalized text of
\* the fetched entries when that text is not empty, and fails with
\* TranscriptProcessingError when it is empty.
C8_TranslateFallbackUsesFlaggedManual ==
  (FlaggedManualInThirdLanguage /\ Done) =>
    /\ trace = <<"list", "manual", "auto", "translate_manual">>
    /\ Len(calls) = 5
    /\ ~calls[2].ok /\ ~calls[3].ok
    /\ \E k \in FlaggedManual :
         /\ FirstFlagged(k)
         /\ calls[4] = Call("translate", "translate", [coll |-> "manual", idx |-> k],
                            language_map[language], TRUE)
         /\ calls[5] = Call("fetch", "translate", [coll |-> "manual", idx |-> k],
                            language_map[language], TRUE)
    /\ transcript # None
    /\ Normalized(transcript) # << >> => outcome = Return(Normalized(transcript))
    /\ Normalized(transcript) = << >> => Raised("TranscriptProcessingError")

\* a returned text obtained from a flagged manual track of a third language,
\* with a generated track of yet another language present
C8_Witness ==
  /\ FlaggedManualInThirdLanguage
  /\ Done
  /\ Returned
  /\ Len(listing.generated) > 0
  /\ \E i \in TranslateCalls : calls[i].op = "translate" /\ calls[i].coll = "manual"

\* C9: no empty string is returned: when the stage that succeeded delivered
\* entries whose normalized text is empty, the call fails with
\* TranscriptProcessingError, which is neither TranscriptNotFoundError nor
\* NoTranscriptAvailableError, and the successful fetch stays the last call made.
C9_NeverReturnsEmpty ==
  /\ Returned => outcome.text # << >>
  /\ (Done /\ transcript # None /\ Normalized(transcript) = << >>) =>
       /\ Raised("TranscriptProcessingError")
       /\ ~Raised("TranscriptNotFoundError")
       /\ ~Raised("NoTranscriptAvailableError")
       /\ calls[Len(calls)].op = "fetch" /\ calls[Len(calls)].ok
       /\ translation_error = None
  /\ (Done /\ transcript # None
        /\ \A i \in 1..Len(transcript.entries) :
             ~transcript.entries[i].has_text \/ transcript.entries[i].text = << >>) =>
       Raised("TranscriptProcessingError")

\* a fetched transcript with entries, none of which has text, at the manual stage
C9_Witness ==
  /\ Done
  /\ Raised("TranscriptProcessingError")
  /\ transcript # None
  /\ Len(transcript.entries) > 0
  /\ \E i \in 1..Len(transcript.entries) : ~transcript.entries[i].has_text
  /\ trace = <<"list", "manual">>

HelloWorld(shape) ==
  [shape |-> shape,
   entries |-> <<[has_text |-> TRUE, text |-> <<"H", "e", "l", "l", "o">>],
                 [has_text |-> TRUE, text |-> <<"w", "o", "r", "l", "d">>]>>]

\* C10: the returned text is the entries' non-empty text fields in their
\* order, joined by one space, without leading or trailing whitespace, for
\* dict entries and for object entries alike; entries without text add
\* nothing; the entries Hello, world give "Hello world".
C10_NormalizedText ==
  /\ Returned =>
       /\ outcome.text = Normalized(transcript)
       /\ outcome.text[1] \notin Whitespace
       /\ outcome.text[Len(outcome.text)] \notin Whitespace
  /\ \A shape \in {"dict", "object"} :
       FormatOutcome(HelloWorld(shape))
         = Return(<<"H", "e", "l", "l", "o", " ", "w", "o", "r", "l", "d">>)

\* object entries, two texts joined, the trailing whitespace of the last removed
C10_Witness ==
  /\ Done
  /\ Returned
  /\ transcript.shape = "object"
  /\ Len(transcript.entries) = 2
  /\ outcome.text = <<"A", " ", "b">>

----------------------------------------------------------------------------
(* Properties of generate_summary *)

GenReturned == gen_outcome # None /\ gen_outcome.kind = "return"

GenRaised == gen_outcome # None /\ gen_outcome.kind = "raise"

\* the contents of the fragments that have one, concatenated in arrival order
RECURSIVE Concatenated(_)
Concatenated(chunks) ==
  IF chunks = << >> THEN << >>
  ELSE IF Head(chunks).is_null THEN Concatenated(Tail(chunks))
       ELSE Head(chunks).content \o Concatenated(Tail(chunks))

\* C11 as stated: the returned text is the exact concatenation of the streamed
\* fragments that have content, whitespace at either end included.
C11_AsStated ==
  (gpc = "done" /\ GenReturned) => gen_outcome.text = Concatenated(response.chunks)

\* C11: while the stream is read the accumulated text is the exact
\* concatenation, in arrival order, of the contents of the fragments read so
\* far that have one; the returned text is that concatenation of the whole
\* stream without its leading and trailing whitespace.
C11_ConcatenationTrimmed ==
  /\ gpc = "stream" =>
       full_response = Concatenated(SubSeq(response.chunks, 1, next_chunk - 1))
  /\ (gpc = "done" /\ GenReturned) =>
       gen_outcome.text = Trimmed(Concatenated(response.chunks))

\* a complex-tier stream with a fragment without content and one that is
\* whitespace, returned without that whitespace
C11_Witness ==
  /\ gpc = "done"
  /\ GenReturned
  /\ complexity = "complex"
  /\ Len(response.chunks) = MaxChunks
  /\ \E k \in 1..Len(response.chunks) : response.chunks[k].content = <<" ">>
  /\ gen_outcome.text # Concatenated(response.chunks)
  /\ gen_outcome.text # << >>

----------------------------------------------------------------------------
(* Properties of summarize_video *)

Finished == opc = "finished"

SumReturned == result # None /\ result.kind = "return"

SumRaised == result # None /\ result.kind = "raise"

AllTiers == {Tiers[k] : k \in 1..Len(Tiers)}

\* the tiers stored so far, under either language
Stored == DOMAIN results.english \cup DOMAIN results.polish

\* C12: the generation calls are issued in the order simple, moderate,
\* complex, each one after the tier before it returned and was stored; after a
\* generation call failed no further call is issued, the call's error is what
\* summarize_video ends with, and a mapping is returned only with all three
\* tiers.
C12_TiersInOrderNoRecovery ==
  /\ \A k \in 1..Len(gcalls) :
       /\ k <= Len(Tiers)
       /\ gcalls[k].complexity = Tiers[k]
       /\ \A j \in 1..(k - 1) : gcalls[j].ok /\ Tiers[j] \in Stored
  /\ GenRaised =>
       /\ Len(gcalls) = tier
       /\ gcalls[tier].complexity = complexity
       /\ opc \in {"generate", "finished"}
       /\ Finished => result = gen_outcome
       /\ Stored = {Tiers[j] : j \in 1..(tier - 1)}
  /\ (Finished /\ Len(gcalls) > 0 /\ Stored # AllTiers) => (SumRaised /\ GenRaised)
  /\ SumReturned =>
       /\ Len(gcalls) = Len(Tiers)
       /\ result.value = results
       /\ DOMAIN result.value.english \cup DOMAIN result.value.polish = AllTiers

\* the second of the three tiers failed: two calls were issued, an error came out
C12_Witness ==
  /\ Finished
  /\ SumRaised
  /\ Len(gcalls) = 2
  /\ gcalls[1].ok
  /\ Stored = {"simple"}

EndToEndScenario ==
  /\ url = WatchUrl
  /\ listing = OneManualEnglish
  /\ language = "eng"
  /\ service = "echo"
  /\ sum_transcript = <<"A", " ", "B">>

\* C13: for a watch URL, one manual English track whose entries give "A B",
\* a stub echoing its prompt and the language eng, summarize_video returns a
\* mapping with exactly the tiers simple, moderate and complex under
\* "english", each the non-empty echoed prompt, and nothing under "polish".
C13_EndToEndEnglish ==
  (EndToEndScenario /\ Finished) =>
    /\ SumReturned
    /\ DOMAIN result.value = {"english", "polish"}
    /\ DOMAIN result.value.english = {"simple", "moderate", "complex"}
    /\ DOMAIN result.value.polish = {}
    /\ \A c \in {"simple", "moderate", "complex"} :
         /\ result.value.english[c] # << >>
         /\ result.value.english[c] = <<prompts[c].eng, "\n", "\n", "A", " ", "B">>

\* the end-to-end run returned
C13_Witness ==
  /\ EndToEndScenario
  /\ Finished
  /\ SumReturned
  /\ Len(gcalls) = 3

CanonicalHost == url.hostname \in {"www.youtube.com", "youtube.com"}

NoVParameter == \A k \in 1..Len(url.query) : url.query[k].key # "v"

InvalidURL == Raise("ValueError", "Invalid YouTube URL")

\* C14: extract_video_id fails only with ValueError "Invalid YouTube URL":
\* that is the outcome for a canonical host off /watch, for a canonical host on
\* /watch without a v parameter and for every host that is neither canonical
\* nor the short-link host.
C14_AsStated ==
  Finished =>
    /\ SumRaised => result = InvalidURL
    /\ (CanonicalHost /\ url.path # WatchPath) => result = InvalidURL
    /\ (CanonicalHost /\ url.path = WatchPath /\ NoVParameter) => result = InvalidURL
    /\ (~CanonicalHost /\ url.hostname # "youtu.be") => result = InvalidURL

\* C15: every identifier extract_video_id returns is non-empty, so
\* get_transcript is never entered with an empty video identifier.
C15_AsStated ==
  opc = "get_transcript" => video_id # << >>

\* C16: an error raised by the create call or by the iteration of the stream
\* ends generate_summary with the wrapping error, whose message carries the
\* underlying error's message; each generate_summary call makes exactly one
\* create call, summarize_video at most three.
C16_WrappedNoRetry ==
  /\ Len(gcalls) <= 3
  /\ opc = "generate" =>
       Len(gcalls) = (IF gpc \in {"stream", "done"} THEN tier ELSE tier - 1)
  /\ (response # None /\ response.error # "") =>
       /\ gpc = "done"
       /\ ~gcalls[Len(gcalls)].ok
       /\ gen_outcome = Raise("Exception", [prefix |-> "Error generating summary",
                                            cause |-> response.error])
  /\ (gpc = "done" /\ response.error = "" /\ response.ending = "error") =>
       gen_outcome = Raise("Exception", [prefix |-> "Error generating summary",
                                         cause |-> "StreamError"])
  /\ GenRaised => (response.error # "" \/ response.ending = "error")

\* the stream of the third tier broke off: three create calls, the third wrapped
C16_Witness ==
  /\ Finished
  /\ GenRaised
  /\ response.error = ""
  /\ Len(gcalls) = 3
  /\ result.type = "Exception"

----------------------------------------------------------------------------
(* Properties of the request *)

\* C17: for every tier and language the request omits temperature and carries
\* the budget in max_completion_tokens when the model is o3-mini; for any other
\* model it has temperature 0.7 and carries the budget in max_tokens; it never
\* has both budget fields.
C17_RequestShape ==
  params # None =>
    /\ params = gcalls[Len(gcalls)].params
    /\ params.model = model
    /\ ~({"max_tokens", "max_completion_tokens"} \subseteq DOMAIN params)
    /\ model = "o3-mini" =>
         /\ "temperature" \notin DOMAIN params
         /\ "max_tokens" \notin DOMAIN params
         /\ "max_completion_tokens" \in DOMAIN params
         /\ params.max_completion_tokens = (IF complexity = "complex" THEN 4000 ELSE 1000)
    /\ model # "o3-mini" =>
         /\ "temperature" \in DOMAIN params
         /\ params.temperature = <<7, 10>>
         /\ "max_completion_tokens" \notin DOMAIN params
         /\ "max_tokens" \in DOMAIN params
         /\ params.max_tokens = (IF complexity = "complex" THEN 4000 ELSE 1000)

\* a complex-tier request in Polish for o3-mini
C17_Witness ==
  /\ params # None
  /\ model = "o3-mini"
  /\ complexity = "complex"
  /\ language = "pl"
  /\ params.max_completion_tokens = 4000

----------------------------------------------------------------------------
(* Properties of the translate-fallback stage, continued *)

\* C18: the translate-fallback stage never fetches or translates a manual
\* track that is not flagged machine-generated; when the listing has only
\* unflagged manual tracks, none in the desired language, and no generated
\* track, the resolver fails with NoTranscriptAvailableError and no translate
\* call is made.
C18_UnflaggedManualNeverUsed ==
  /\ \A i \in TranslateCalls :
       calls[i].coll = "manual" => listing.manual[calls[i].idx].is_generated
  /\ (Done /\ ~ListFailed /\ listing.generated = << >> /\ FlaggedManual = {}
        /\ IndexOf(listing.manual, language_map[language]) = 0) =>
       /\ Raised("NoTranscriptAvailableError")
       /\ \A i \in 1..Len(calls) : calls[i].op \notin {"translate", "fetch"}
       /\ trace = StageOrder

\* two human-authored tracks in other languages, no generated track
C18_Witness ==
  /\ Done
  /\ Raised("NoTranscriptAvailableError")
  /\ Len(listing.manual) = 2
  /\ FlaggedManual = {}
  /\ listing.generated = << >>

====
